---- MODULE Spec2Model ----
(***************************************************************************)
(* Password-based image encryption (AES-256-CBC, PKCS#7, PBKDF2) with its  *)
(* container codec and its encryption-strength analysis.                   *)
(*                                                                         *)
(* Byte buffers are sequences over 0..255.  The two library primitives     *)
(* the code calls, the PBKDF2-HMAC-SHA256 pseudo-random function and the   *)
(* AES block permutation, are replaced by small keyed functions that keep  *)
(* what the callers rely on: the PRF reads the password only through the   *)
(* HMAC key block (the password bytes zero-padded to the hash block size), *)
(* and the block cipher is a keyed bijection on 16-byte blocks.  Padding,  *)
(* CBC chaining, the container layout, the error paths and the analysis    *)
(* arithmetic are modelled as the code and the libraries compute them.     *)
(* The main window's Encrypt and Decrypt handlers run over a small file    *)
(* system; an image file is a signature, a size and one byte per pixel.    *)
(***************************************************************************)
EXTENDS Integers, Sequences, FiniteSets, TLC

\* ------------------------------------------------------------------ bounds
MaxPlainLen == 17
MaxFileLen == 49
MaxKeyCalls == 2
MaxBufLen == 2
MaxEntropyLen == 32

\* ------------------------------------------------------- program constants
BlockSize == 16
SaltLen == 16
IvLen == 16
HeaderLen == 32
KeyLen == 32
DefaultIterations == 200000
HmacBlockSize == 64

\* ----------------------------------------------------------------- buffers
Fill(n, b) == [j \in 1..n |-> b]

Ramp(n, b) == [j \in 1..n |-> (b + j) % 256]

\* n bytes, each s more than the one before
Stride(n, s) == [j \in 1..n |-> (j * s) % 256]

\* data with its first k bytes replaced by zeros
ZeroPrefix(data, k) == [j \in 1..Len(data) |-> IF j <= k THEN 0 ELSE data[j]]

Take(s, n) == SubSeq(s, 1, n)

Drop(s, n) == SubSeq(s, n + 1, Len(s))

RECURSIVE XorBits(_, _, _)
XorBits(a, b, n) ==
  IF n = 0 THEN 0
  ELSE (((a % 2) + (b % 2)) % 2) + 2 * XorBits(a \div 2, b \div 2, n - 1)

Xor(a, b) == XorBits(a, b, 8)

\* s[lo] + ... + s[hi], by halves
RECURSIVE SumRange(_, _, _)
SumRange(s, lo, hi) ==
  IF lo > hi THEN 0
  ELSE IF lo = hi THEN s[lo]
  ELSE LET mid == (lo + hi) \div 2
       IN SumRange(s, lo, mid) + SumRange(s, mid + 1, hi)

SumSeq(s) == SumRange(s, 1, Len(s))

\* --------------------------------------------------------------- passwords
\* A password argument is a Python object: its type and, for str and bytes,
\* its elements (code points of a str).
Str(cs) == [type |-> "str", chars |-> cs]

PyBytes(cs) == [type |-> "bytes", chars |-> cs]

PyNone == [type |-> "NoneType", chars |-> <<>>]

\* str.encode(): UTF-8 of each code point (code points below 2048 here).
Utf8Char(c) ==
  IF c < 128 THEN <<c>> ELSE <<192 + (c \div 64), 128 + (c % 64)>>

RECURSIVE Utf8(_)
Utf8(cs) == IF cs = <<>> THEN <<>> ELSE Utf8Char(Head(cs)) \o Utf8(Tail(cs))

\* ------------------------------------------------------------ PBKDF2 / AES
\* HMAC turns a key no longer than the hash block into the key block by
\* appending zero bytes; PBKDF2 passes the password as that key.
HmacKeyBlock(pwbytes) ==
  pwbytes \o Fill(HmacBlockSize - Len(pwbytes), 0)

Weighted(s) == SumSeq([j \in 1..Len(s) |-> j * s[j]])

PBKDF2(pwbytes, salt, dkLen, count) ==
  LET mix == Weighted(HmacKeyBlock(pwbytes)) + 3 * Weighted(salt) + Len(salt) + count
  IN [j \in 1..dkLen |-> (mix + 7 * j) % 256]

RoundKey(key) == [j \in 1..BlockSize |-> (key[j] + 2 * key[j + BlockSize]) % 256]

\* The block permutation: add the round key bytewise, rotate the block by
\* one position.
AesEncryptBlock(key, b) ==
  LET rk == RoundKey(key)
  IN [j \in 1..BlockSize |->
        LET src == (j % BlockSize) + 1
        IN (b[src] + rk[src]) % 256]

AesDecryptBlock(key, c) ==
  LET rk == RoundKey(key)
  IN [j \in 1..BlockSize |->
        LET dst == ((j + BlockSize - 2) % BlockSize) + 1
        IN (c[dst] + 256 - rk[j]) % 256]

XorBlock(a, b) == [j \in 1..BlockSize |-> Xor(a[j], b[j])]

RECURSIVE CbcEncrypt(_, _, _)
CbcEncrypt(key, prev, data) ==
  IF data = <<>> THEN <<>>
  ELSE LET c == AesEncryptBlock(key, XorBlock(Take(data, BlockSize), prev))
       IN c \o CbcEncrypt(key, c, Drop(data, BlockSize))

RECURSIVE CbcDecrypt(_, _, _)
CbcDecrypt(key, prev, data) ==
  IF data = <<>> THEN <<>>
  ELSE LET c == Take(data, BlockSize)
       IN XorBlock(AesDecryptBlock(key, c), prev)
            \o CbcDecrypt(key, c, Drop(data, BlockSize))

\* ----------------------------------------------------------------- padding
PadLen(n, block) == block - (n % block)

\* variant of pad: nothing is appended to a block-aligned buffer
padNoFullBlock(data, block) ==
  data \o Fill((block - (Len(data) % block)) % block,
               (block - (Len(data) % block)) % block)

pad(data, block) == data \o Fill(PadLen(Len(data), block), PadLen(Len(data), block))

Failure(kind, msg) == [status |-> kind, msg |-> msg]

\* variant of unpad: only the last byte is validated
unpadLastByteOnly(padded, block) ==
  IF Len(padded) = 0 THEN Failure("ValueError", "Zero-length input cannot be unpadded")
  ELSE IF Len(padded) % block # 0 THEN Failure("ValueError", "Input data is not padded")
  ELSE LET k == padded[Len(padded)]
       IN IF k < 1 \/ k > block
          THEN Failure("ValueError", "Padding is incorrect.")
          ELSE [status |-> "ok", data |-> Take(padded, Len(padded) - k)]

unpad(padded, block) ==
  IF Len(padded) = 0 THEN Failure("ValueError", "Zero-length input cannot be unpadded")
  ELSE IF Len(padded) % block # 0 THEN Failure("ValueError", "Input data is not padded")
  ELSE LET k == padded[Len(padded)]
       IN IF k < 1 \/ k > (IF block < Len(padded) THEN block ELSE Len(padded))
          THEN Failure("ValueError", "Padding is incorrect.")
          ELSE IF Drop(padded, Len(padded) - k) # Fill(k, k)
          THEN Failure("ValueError", "PKCS#7 padding is incorrect.")
          ELSE [status |-> "ok", data |-> Take(padded, Len(padded) - k)]

\* -------------------------------------------------------------- derive_key
\* salt is [given |-> FALSE] for an omitted argument (None) or
\* [given |-> TRUE, bytes |-> ...]; urandom is what os.urandom(16) returns
\* if it is called.
NoSalt == [given |-> FALSE, bytes |-> <<>>]

Salt(bs) == [given |-> TRUE, bytes |-> bs]

\* variant of derive_key: the password is not validated
derive_keyNoCheck(pw, salt, iterations, urandom) ==
  LET s == IF (~salt.given) \/ salt.bytes = <<>> THEN urandom ELSE salt.bytes
  IN [status |-> "ok", key |-> PBKDF2(Utf8(pw.chars), s, KeyLen, iterations),
      salt |-> s]

derive_key(pw, salt, iterations, urandom) ==
  LET s == IF (~salt.given) \/ salt.bytes = <<>> THEN urandom ELSE salt.bytes
  IN IF pw.type # "str" \/ pw.chars = <<>>
     THEN Failure("CryptoError", "Invalid password provided")
     ELSE [status |-> "ok", key |-> PBKDF2(Utf8(pw.chars), s, KeyLen, iterations),
           salt |-> s]

\* ----------------------------------------------------------- encrypt_image
encrypt_image(data, pw, urandomSalt, urandomIv) ==
  LET dk == derive_key(pw, NoSalt, DefaultIterations, urandomSalt)
  IN IF dk.status # "ok"
     THEN Failure("CryptoError", "Encryption failed")
     ELSE [status |-> "ok", salt |-> dk.salt, iv |-> urandomIv,
           encrypted_data |-> CbcEncrypt(dk.key, urandomIv, pad(data, BlockSize))]

\* ----------------------------------------------------------- decrypt_image
\* variant of decrypt_image: the stored salt is not passed to derive_key
decrypt_imageFreshSalt(data, salt, iv, pw, urandom) ==
  LET dk == derive_key(pw, NoSalt, DefaultIterations, urandom)
  IN IF dk.status # "ok" THEN Failure("CryptoError", "Decryption failed")
     ELSE IF Len(iv) # IvLen THEN Failure("CryptoError", "Decryption failed")
     ELSE IF Len(data) % BlockSize # 0 THEN Failure("CryptoError", "Decryption failed")
     ELSE LET u == unpad(CbcDecrypt(dk.key, iv, data), BlockSize)
          IN IF u.status # "ok" THEN Failure("CryptoError", "Decryption failed")
             ELSE [status |-> "ok", data |-> u.data]

decrypt_image(data, salt, iv, pw, urandom) ==
  LET dk == derive_key(pw, Salt(salt), DefaultIterations, urandom)
  IN IF dk.status # "ok" THEN Failure("CryptoError", "Decryption failed")
     ELSE IF Len(iv) # IvLen THEN Failure("CryptoError", "Decryption failed")
     ELSE IF Len(data) % BlockSize # 0 THEN Failure("CryptoError", "Decryption failed")
     ELSE LET u == unpad(CbcDecrypt(dk.key, iv, data), BlockSize)
          IN IF u.status # "ok" THEN Failure("CryptoError", "Decryption failed")
             ELSE [status |-> "ok", data |-> u.data]

\* --------------------------------------------------------- container codec
\* variant of combine_encrypted_data: IV and salt in the other order
combine_encrypted_dataIvFirst(salt, iv, data) == iv \o salt \o data

combine_encrypted_data(salt, iv, data) == salt \o iv \o data

\* variant of split_encrypted_data: the ciphertext starts one byte late
split_encrypted_dataOffByOne(combined) ==
  IF Len(combined) < HeaderLen
  THEN Failure("CryptoError", "Invalid encrypted data format")
  ELSE [status |-> "ok",
        salt |-> SubSeq(combined, 1, SaltLen),
        iv |-> SubSeq(combined, SaltLen + 1, HeaderLen),
        encrypted_data |-> SubSeq(combined, HeaderLen + 2, Len(combined))]

split_encrypted_data(combined) ==
  IF Len(combined) < HeaderLen
  THEN Failure("CryptoError", "Invalid encrypted data format")
  ELSE [status |-> "ok",
        salt |-> SubSeq(combined, 1, SaltLen),
        iv |-> SubSeq(combined, SaltLen + 1, HeaderLen),
        encrypted_data |-> SubSeq(combined, HeaderLen + 1, Len(combined))]

\* ---------------------------------------------------------------- analysis
\* Floating-point results are kept exactly where the code's arithmetic is
\* rational (npcr, uaci: numerator over denominator; a correlation: the
\* scaled covariance and variances) and in 1/1024 bits for the entropy.
\* nan |-> TRUE is the IEEE not-a-number numpy returns for 0/0.
NaN == [nan |-> TRUE, num |-> 0, den |-> 0]

Ratio(n, d) == IF d = 0 THEN NaN ELSE [nan |-> FALSE, num |-> n, den |-> d]

Abs(x) == IF x < 0 THEN -x ELSE x

RECURSIVE FloorLog2(_)
FloorLog2(x) == IF x < 2 THEN 0 ELSE 1 + FloorLog2(x \div 2)

RECURSIVE Pow2(_)
Pow2(e) == IF e = 0 THEN 1 ELSE 2 * Pow2(e - 1)

RECURSIVE FracBits(_, _)
FracBits(m, k) ==
  IF k = 0 THEN 0
  ELSE LET sq == (m * m) \div 4096
       IN IF sq >= 8192 THEN Pow2(k - 1) + FracBits(sq \div 2, k - 1)
          ELSE FracBits(sq, k - 1)

\* log2(x) in 1/1024 units, x >= 1
Log2Fix(x) ==
  LET e == FloorLog2(x)
  IN e * 1024 + FracBits((x * 4096) \div Pow2(e), 10)

Count(data, v) == Cardinality({j \in 1..Len(data) : data[j] = v})

Values(data) == {data[j] : j \in 1..Len(data)}

\* sum of count * (log2(n) - log2(count)) over the byte values of S that lie
\* in lo..hi, by halves
RECURSIVE SumOver(_, _, _, _, _)
SumOver(S, data, n, lo, hi) ==
  IF S \cap (lo..hi) = {} THEN 0
  ELSE IF lo = hi
  THEN LET c == Count(data, lo) IN c * (Log2Fix(n) - Log2Fix(c))
  ELSE LET mid == (lo + hi) \div 2
       IN SumOver(S, data, n, lo, mid) + SumOver(S, data, n, mid + 1, hi)

\* variant of calculate_entropy: the counts are not turned into probabilities
calculate_entropyOfCounts(data) ==
  [status |-> "ok", value |-> 0 - SumOver(Values(data), data, 1, 0, 255)]

\* -sum(p * log2(p)) over the byte values that occur, p = count / len(data);
\* for an empty buffer the division 0/0 yields nan probabilities, none of
\* which is > 0, and the sum over nothing is 0.
calculate_entropy(data) ==
  IF Len(data) = 0 THEN [status |-> "ok", value |-> 0]
  ELSE [status |-> "ok",
        value |-> SumOver(Values(data), data, Len(data), 0, 255) \div Len(data)]

\* a 2-D numpy array: its shape and its elements in row-major order
Array(h, w, data) == [shape |-> <<h, w>>, data |-> data]

Column(data) == Array(Len(data), 1, data)

At(a, r, c) == a.data[(r - 1) * a.shape[2] + c]

\* the elements of a[r0:r0+h, c0:c0+w], flattened
ViewRows(a, r0, c0, h, w) ==
  IF h <= 0 \/ w <= 0 THEN <<>>
  ELSE [k \in 1..(h * w) |-> At(a, r0 + ((k - 1) \div w), c0 + ((k - 1) % w))]

\* variant of corrcoef: an undefined coefficient is reported as 0
corrcoefNanAsZero(x, y) ==
  LET n == Len(x)
      sx == SumSeq(x)
      sy == SumSeq(y)
      cov == n * SumSeq([j \in 1..n |-> x[j] * y[j]]) - sx * sy
      vx == n * SumSeq([j \in 1..n |-> x[j] * x[j]]) - sx * sx
      vy == n * SumSeq([j \in 1..n |-> y[j] * y[j]]) - sy * sy
  IN IF n < 2 \/ vx = 0 \/ vy = 0
     THEN [nan |-> FALSE, cov |-> 0, vx |-> 1, vy |-> 1]
     ELSE [nan |-> FALSE, cov |-> cov, vx |-> vx, vy |-> vy]

\* np.corrcoef(x, y)[0, 1]
corrcoef(x, y) ==
  LET n == Len(x)
      sx == SumSeq(x)
      sy == SumSeq(y)
      cov == n * SumSeq([j \in 1..n |-> x[j] * y[j]]) - sx * sy
      vx == n * SumSeq([j \in 1..n |-> x[j] * x[j]]) - sx * sx
      vy == n * SumSeq([j \in 1..n |-> y[j] * y[j]]) - sy * sy
  IN IF n < 2 \/ vx = 0 \/ vy = 0
     THEN [nan |-> TRUE, cov |-> 0, vx |-> 0, vy |-> 0]
     ELSE [nan |-> FALSE, cov |-> cov, vx |-> vx, vy |-> vy]

calculate_correlation(image) ==
  LET h == image.shape[1]
      w == image.shape[2]
  IN [status |-> "ok",
      horizontal |-> corrcoef(ViewRows(image, 1, 1, h, w - 1),
                              ViewRows(image, 1, 2, h, w - 1)),
      vertical |-> corrcoef(ViewRows(image, 1, 1, h - 1, w),
                            ViewRows(image, 2, 1, h - 1, w)),
      diagonal |-> corrcoef(ViewRows(image, 1, 1, h - 1, w - 1),
                            ViewRows(image, 2, 2, h - 1, w - 1))]

\* variant of calculate_npcr_uaci: the shapes are not compared
calculate_npcr_uaciNoShapeCheck(original, encrypted) ==
  LET size == Len(encrypted.data)
      m == IF Len(original.data) < size THEN Len(original.data) ELSE size
      differ == Cardinality({j \in 1..m : original.data[j] # encrypted.data[j]})
      total == SumSeq([j \in 1..m |-> Abs(original.data[j] - encrypted.data[j])])
  IN [status |-> "ok",
      npcr |-> Ratio(100 * differ, size),
      uaci |-> Ratio(100 * total, 255 * size)]

\* variant of calculate_npcr_uaci: the intensity is scaled by 256, not 255
calculate_npcr_uaciScale256(original, encrypted) ==
  IF original.shape # encrypted.shape
  THEN Failure("AnalysisError", "NPCR/UACI calculation failed")
  ELSE LET size == Len(encrypted.data)
           differ == Cardinality({j \in 1..size : original.data[j] # encrypted.data[j]})
           total == SumSeq([j \in 1..size |->
                              Abs(original.data[j] - encrypted.data[j])])
       IN [status |-> "ok",
           npcr |-> Ratio(100 * differ, size),
           uaci |-> Ratio(100 * total, 256 * size)]

calculate_npcr_uaci(original, encrypted) ==
  IF original.shape # encrypted.shape
  THEN Failure("AnalysisError", "NPCR/UACI calculation failed")
  ELSE LET size == Len(encrypted.data)
           differ == Cardinality({j \in 1..size : original.data[j] # encrypted.data[j]})
           total == SumSeq([j \in 1..size |->
                              Abs(original.data[j] - encrypted.data[j])])
       IN [status |-> "ok",
           npcr |-> Ratio(100 * differ, size),
           uaci |-> Ratio(100 * total, 255 * size)]

\* the r in lo..hi-1 with r * r <= x < (r + 1) * (r + 1), by bisection
RECURSIVE ISqrtFrom(_, _, _)
ISqrtFrom(x, lo, hi) ==
  IF hi - lo <= 1 THEN lo
  ELSE LET mid == (lo + hi) \div 2
       IN IF mid * mid <= x THEN ISqrtFrom(x, mid, hi) ELSE ISqrtFrom(x, lo, mid)

ISqrt(x) == ISqrtFrom(x, 0, 46341)

\* |c| in 1/1000, for a correlation that is a number
AbsCorr1000(c) == ((Abs(c.cov) \div ISqrt(c.vx)) * 1000) \div ISqrt(c.vy)

\* np.mean([abs(v) for v in correlations.values()]) < limit / 1000; a
\* comparison with nan is False
AvgCorrelationBelow(corr, limit) ==
  /\ ~corr.horizontal.nan
  /\ ~corr.vertical.nan
  /\ ~corr.diagonal.nan
  /\ AbsCorr1000(corr.horizontal) + AbsCorr1000(corr.vertical)
       + AbsCorr1000(corr.diagonal) < 3 * limit

\* entropy thresholds 7.9 and 7.5 in 1/1024 bits
EntropyHigh == 8089

EntropyMid == 7680

StrengthScore(entropy, corr, npcr) ==
  (IF entropy > EntropyHigh THEN 2 ELSE IF entropy > EntropyMid THEN 1 ELSE 0)
  + (IF AvgCorrelationBelow(corr, 100) THEN 2
     ELSE IF AvgCorrelationBelow(corr, 300) THEN 1 ELSE 0)
  + (IF (~npcr.nan) /\ npcr.num > 99 * npcr.den THEN 2
     ELSE IF (~npcr.nan) /\ npcr.num > 90 * npcr.den THEN 1 ELSE 0)

\* variant of Verdict: a score of 4 already counts as Strong
VerdictStrongAtFour(score) ==
  IF score >= 4 THEN "Strong" ELSE IF score >= 3 THEN "Moderate" ELSE "Weak"

Verdict(score) ==
  IF score >= 5 THEN "Strong" ELSE IF score >= 3 THEN "Moderate" ELSE "Weak"

analyze_encryption_strength(original_data, encrypted_data) ==
  LET entropy == calculate_entropy(encrypted_data)
      orig_array == Column(original_data)
      enc_array == Column(encrypted_data)
      correlations == calculate_correlation(enc_array)
      metrics == calculate_npcr_uaci(orig_array, enc_array)
  IN IF entropy.status # "ok" \/ correlations.status # "ok" \/ metrics.status # "ok"
     THEN Failure("AnalysisError", "Encryption strength analysis failed")
     ELSE [status |-> "ok",
           entropy |-> entropy.value,
           correlations |-> [horizontal |-> correlations.horizontal,
                             vertical |-> correlations.vertical,
                             diagonal |-> correlations.diagonal],
           npcr |-> metrics.npcr,
           uaci |-> metrics.uaci,
           verdict |-> Verdict(StrengthScore(entropy.value, correlations,
                                             metrics.npcr))]

\* ------------------------------------------------------------------ inputs
Plaintexts ==
  {Fill(n, 1) : n \in 0..MaxPlainLen} \cup {Ramp(n, 250) : n \in 0..MaxPlainLen}

\* outcomes of os.urandom(16)
RandomBlocks == {Fill(BlockSize, 0), Ramp(BlockSize, 100)}

PwA == Str(<<97>>)

PwANul == Str(<<97, 0>>)

PwEAcute == Str(<<233>>)

Passwords == {PwA, PwANul, PwEAcute, Str(<<>>), PyBytes(<<97>>)}

ValidPassword(pw) == pw.type = "str" /\ pw.chars # <<>>

\* contents of files that were not written by this program
Files ==
  {Fill(n, 16) : n \in 0..MaxFileLen} \cup {Ramp(n, 0) : n \in 0..MaxFileLen}

SaltArgs == {NoSalt, Salt(<<>>), Salt(Ramp(SaltLen, 100))}

IterationCounts == {DefaultIterations, 1000}

\* arguments of direct calls of combine_encrypted_data
CodecBlocks == {Fill(16, 0), Ramp(16, 100), Fill(15, 9)}

CodecCiphertexts == {Fill(n, 32) : n \in 0..MaxPlainLen} \cup {Ramp(16, 7)}

\* arguments of direct calls of the analysis functions
AnalysisBuffers ==
  UNION {{Fill(n, 0), Fill(n, 255), Ramp(n, 254)} : n \in 0..MaxBufLen}

AnalysisShapes == {<<0, 1>>, <<1, 1>>, <<1, 2>>, <<2, 1>>, <<2, 2>>}

AnalysisArrays ==
  UNION {{Array(sh[1], sh[2], Fill(sh[1] * sh[2], 0)),
          Array(sh[1], sh[2], Fill(sh[1] * sh[2], 255)),
          Array(sh[1], sh[2], Ramp(sh[1] * sh[2], 254))} : sh \in AnalysisShapes}

\* arguments of direct calls of calculate_entropy: constant buffers, buffers
\* of distinct bytes, and buffers in which every byte value occurs once or
\* twice
EntropyBuffers ==
  UNION {{Fill(n, 0), Fill(n, 255), Ramp(n, 0), Ramp(n, 250)} : n \in 0..MaxEntropyLen}
    \cup {Ramp(256, 0), Ramp(512, 7)}

\* encrypted payloads of realistic entropy: 8, 200 and 256 distinct bytes, a
\* constant one and the empty one
VerdictCiphertexts ==
  {<<>>, Ramp(8, 0), Ramp(200, 0), Fill(200, 9), Ramp(256, 0), Stride(256, 97)}

VerdictPrefixes == {0, 4, 180, 181, 190, 198, 199, 200, 256}

\* originals of the same lengths, equal to a payload except on a prefix
VerdictOriginals ==
  UNION {{ZeroPrefix(e, k) : k \in {q \in VerdictPrefixes : q <= Len(e)}}
         : e \in VerdictCiphertexts}

\* the file chosen as the original image: the one that was encrypted, or
\* another one
OriginalFiles(encrypted_image) == {encrypted_image, Fill(BlockSize, 5)}

SmallPlaintexts == {Fill(1, 7)}

\* ---------------------------------------------------------------- the GUI
\* A path is a stem and an extension; the empty path is what a cancelled file
\* dialog returns.
Path(stem, ext) == [stem |-> stem, ext |-> ext]

NoPath == Path("", "")

\* os.path.splitext(path)[0] + '_visual.png'
VisualPath(path) == Path(path.stem, "_visual.png")

GuiPaths ==
  {Path(st, ext) : st \in {"photo", "notes", "gone", "half", "locked", "memo",
                          "junk", "restored"},
                  ext \in {".png", ".enc", "_visual.png"}}

Absent == [exists |-> FALSE, bytes |-> <<>>]

FileOf(bytes) == [exists |-> TRUE, bytes |-> bytes]

\* open(path, 'wb') and Image.save fail in the locked directory, and on the
\* visualisation next to half.enc
Writable(path) ==
  path.stem # "locked" /\ path # Path("half", "_visual.png")

\* An image file: a two-byte signature, width, height, one byte per pixel.
IsImage(bytes) ==
  /\ Len(bytes) >= 4
  /\ bytes[1] = 137 /\ bytes[2] = 80
  /\ bytes[3] >= 1 /\ bytes[4] >= 1
  /\ Len(bytes) = 4 + bytes[3] * bytes[4]

\* Image.open(...)
DecodeImage(bytes) == [size |-> <<bytes[3], bytes[4]>>, pixels |-> Drop(bytes, 4)]

\* Image.save(...)
SavePng(img) == <<137, 80, img.size[1], img.size[2]>> \o img.pixels

NoSize == <<>>

\* the payload as a grayscale image: of the original's size when the
\* payload has that many bytes, else int(sqrt(n)) wide and n // width high
create_visualization_image(encrypted_data, original_size) ==
  LET n == Len(encrypted_data)
      keep == original_size # NoSize /\ ~(n < original_size[1] * original_size[2])
      width == IF keep THEN original_size[1] ELSE ISqrt(n)
  IN IF width = 0
     THEN Failure("CryptoError", "Failed to create visualization image")
     ELSE LET height == IF keep THEN original_size[2] ELSE n \div width
          IN [status |-> "ok", size |-> <<width, height>>,
              pixels |-> Take(encrypted_data, width * height)]

PhotoBytes == <<137, 80, 2, 1, 10, 20>>

NotesBytes == <<104, 105>>

\* a container this program wrote earlier for a file that is not an image
MemoContainer ==
  LET e == encrypt_image(NotesBytes, PwA, Fill(SaltLen, 0), Ramp(IvLen, 100))
  IN combine_encrypted_data(e.salt, e.iv, e.encrypted_data)

InitialFiles ==
  [path \in GuiPaths |->
     IF path = Path("photo", ".png") THEN FileOf(PhotoBytes)
     ELSE IF path = Path("notes", ".png") THEN FileOf(NotesBytes)
     ELSE IF path = Path("memo", ".enc") THEN FileOf(MemoContainer)
     ELSE IF path = Path("junk", ".enc") THEN FileOf(Fill(HeaderLen - 1, 16))
     ELSE Absent]

\* what the file dialogs and the password dialog can return
InputChoices(mode) ==
  IF mode = "encrypt"
  THEN {NoPath, Path("photo", ".png"), Path("notes", ".png"), Path("gone", ".png")}
  ELSE {NoPath, Path("photo", ".enc"), Path("half", ".enc"), Path("memo", ".enc"),
        Path("junk", ".enc")}

SaveChoices(mode) ==
  IF mode = "encrypt"
  THEN {NoPath, Path("photo", ".enc"), Path("half", ".enc"), Path("locked", ".enc")}
  ELSE {NoPath, Path("restored", ".png"), Path("locked", ".png")}

PasswordEntries == {PyNone, Str(<<>>), PwA, PwEAcute}

\* outcome of the two os.urandom(16) calls of one encryption: salt and IV
GuiRandom == {<<Fill(BlockSize, 0), Ramp(BlockSize, 100)>>}

\* decryption draws no random bytes: the salt is read from the file
NoRandom == <<Fill(BlockSize, 0), Fill(BlockSize, 0)>>

Failed(fs) == [outcome |-> "failed", files |-> fs, visual_path |-> NoPath]

\* the encrypt branch of _process_image: the files it leaves and whether it
\* ran to its end
EncryptBranch(input_path, pw, save_path, rnd, fs) ==
  IF ~fs[input_path].exists \/ ~IsImage(fs[input_path].bytes) THEN Failed(fs)
  ELSE
    LET image_bytes == fs[input_path].bytes
        original_size == DecodeImage(image_bytes).size
        e == encrypt_image(image_bytes, pw, rnd[1], rnd[2])
    IN IF e.status # "ok" \/ ~Writable(save_path) THEN Failed(fs)
       ELSE
         LET fs1 == [fs EXCEPT ![save_path] =
                       FileOf(combine_encrypted_data(e.salt, e.iv, e.encrypted_data))]
             visual_path == VisualPath(save_path)
             visual_img == create_visualization_image(e.encrypted_data, original_size)
         IN IF visual_img.status # "ok" \/ ~Writable(visual_path) THEN Failed(fs1)
            ELSE [outcome |-> "ok",
                  files |-> [fs1 EXCEPT ![visual_path] = FileOf(SavePng(visual_img))],
                  visual_path |-> visual_path]

\* variant of DecryptBranch: the decrypted data is saved as it is, unverified
DecryptBranchUnverified(input_path, pw, save_path, rnd, fs) ==
  IF ~fs[input_path].exists THEN Failed(fs)
  ELSE
    LET parts0 == split_encrypted_data(fs[input_path].bytes)
    IN IF parts0.status # "ok" THEN Failed(fs)
       ELSE
         LET d == decrypt_image(parts0.encrypted_data, parts0.salt, parts0.iv, pw, rnd[1])
         IN IF d.status # "ok" \/ ~Writable(save_path) THEN Failed(fs)
            ELSE
              LET fs1 == [fs EXCEPT ![save_path] = FileOf(d.data)]
                  visual_path == VisualPath(input_path)
                  visual_img == create_visualization_image(parts0.encrypted_data, NoSize)
              IN IF ~IsImage(d.data) THEN Failed(fs1)
                 ELSE IF fs1[visual_path].exists
                 THEN [outcome |-> "ok", files |-> fs1, visual_path |-> visual_path]
                 ELSE IF visual_img.status # "ok" \/ ~Writable(visual_path)
                 THEN Failed(fs1)
                 ELSE [outcome |-> "ok",
                       files |-> [fs1 EXCEPT ![visual_path] = FileOf(SavePng(visual_img))],
                       visual_path |-> visual_path]

\* the decrypt branch of _process_image
DecryptBranch(input_path, pw, save_path, rnd, fs) ==
  IF ~fs[input_path].exists THEN Failed(fs)
  ELSE
    LET parts0 == split_encrypted_data(fs[input_path].bytes)
    IN IF parts0.status # "ok" THEN Failed(fs)
       ELSE
         LET d == decrypt_image(parts0.encrypted_data, parts0.salt, parts0.iv, pw, rnd[1])
         IN IF d.status # "ok" THEN Failed(fs)
            ELSE IF ~IsImage(d.data) \/ ~Writable(save_path) THEN Failed(fs)
            ELSE
              LET fs1 == [fs EXCEPT ![save_path] = FileOf(SavePng(DecodeImage(d.data)))]
                  visual_path == VisualPath(input_path)
                  visual_img == create_visualization_image(parts0.encrypted_data, NoSize)
              IN IF fs1[visual_path].exists
                 THEN [outcome |-> "ok", files |-> fs1, visual_path |-> visual_path]
                 ELSE IF visual_img.status # "ok" \/ ~Writable(visual_path)
                 THEN Failed(fs1)
                 ELSE [outcome |-> "ok",
                       files |-> [fs1 EXCEPT ![visual_path] = FileOf(SavePng(visual_img))],
                       visual_path |-> visual_path]

\* ------------------------------------------------------------------- state
VARIABLES
  image_data,     \* plaintext handed to encrypt_image
  password,       \* password handed to encrypt_image
  enc,            \* what encrypt_image returned
  combine_args,   \* arguments of the last combine_encrypted_data call
  combined_data,  \* the container (the contents of the encrypted file)
  parts,          \* what split_encrypted_data returned
  dec_pw,         \* password handed to decrypt_image
  dec,            \* what decrypt_image returned
  kdf_call,       \* arguments and results of the direct derive_key calls
  analysis,       \* arguments and result of analyze_encryption_strength
  npcr_call,      \* arguments and result of a direct calculate_npcr_uaci call
  entropy_call,   \* argument and result of a direct calculate_entropy call
  original_image_path,   \* SecureImageEncryptor.original_image_path
  processed_image_path,  \* SecureImageEncryptor.processed_image_path
  compare_visible,       \* whether compare_btn is shown
  visual_image_path,     \* SecureImageEncryptor.visual_image_path
  files,                 \* the file system: contents by path
  attempt                \* the last run of _process_image

gui == <<original_image_path, processed_image_path, compare_visible,
         visual_image_path, files, attempt>>

vars == <<image_data, password, enc, combine_args, combined_data, parts,
          dec_pw, dec, kdf_call, analysis, npcr_call, entropy_call, gui>>

NotCalled == [status |-> "none"]

Init ==
  /\ image_data = <<>>
  /\ password = PyNone
  /\ enc = NotCalled
  /\ combine_args = NotCalled
  /\ combined_data = NotCalled
  /\ parts = NotCalled
  /\ dec_pw = PyNone
  /\ dec = NotCalled
  /\ kdf_call = NotCalled
  /\ analysis = NotCalled
  /\ npcr_call = NotCalled
  /\ entropy_call = NotCalled
  /\ original_image_path = PyNone
  /\ processed_image_path = PyNone
  /\ compare_visible = FALSE
  /\ visual_image_path = PyNone
  /\ files = InitialFiles
  /\ attempt = NotCalled

\* ----------------------------------------------------------------- actions
\* salt, iv, encrypted_data = encrypt_image(image_data, password)
EncryptFrom(plaintexts) ==
  /\ enc.status = "none"
  /\ combined_data.status = "none"
  /\ \E p \in plaintexts, pw \in Passwords, s \in RandomBlocks, i \in RandomBlocks :
       /\ image_data' = p
       /\ password' = pw
       /\ enc' = encrypt_image(p, pw, s, i)
  /\ UNCHANGED <<combine_args, combined_data, parts, dec_pw, dec, kdf_call, analysis, npcr_call, entropy_call, gui>>

EncryptImage == EncryptFrom(Plaintexts)

Combine(salt, iv, data) ==
  /\ combined_data.status = "none"
  /\ combine_args' = [status |-> "ok", salt |-> salt, iv |-> iv, encrypted_data |-> data]
  /\ combined_data' = [status |-> "ok", bytes |-> combine_encrypted_data(salt, iv, data)]
  /\ UNCHANGED <<image_data, password, enc, parts, dec_pw, dec, kdf_call, analysis, npcr_call, entropy_call, gui>>

\* combined_data = combine_encrypted_data(salt, iv, encrypted_data)
CombineEncryptedData ==
  /\ enc.status = "ok"
  /\ Combine(enc.salt, enc.iv, enc.encrypted_data)

\* a direct call of combine_encrypted_data
CombineParts ==
  /\ enc.status = "none"
  /\ \E s \in CodecBlocks, i \in CodecBlocks, c \in CodecCiphertexts : Combine(s, i, c)

\* the encrypted file is one this program did not write
ReadEncryptedFile ==
  /\ enc.status = "none"
  /\ combined_data.status = "none"
  /\ \E f \in Files : combined_data' = [status |-> "ok", bytes |-> f]
  /\ UNCHANGED <<image_data, password, enc, combine_args, parts, dec_pw, dec, kdf_call, analysis, npcr_call, entropy_call, gui>>

\* salt, iv, ciphertext = split_encrypted_data(encrypted_data)
SplitEncryptedData ==
  /\ combined_data.status = "ok"
  /\ parts.status = "none"
  /\ parts' = split_encrypted_data(combined_data.bytes)
  /\ UNCHANGED <<image_data, password, enc, combine_args, combined_data, dec_pw,
                 dec, kdf_call, analysis, npcr_call, entropy_call, gui>>

\* decrypted_data = decrypt_image(ciphertext, salt, iv, password)
DecryptImage ==
  /\ parts.status = "ok"
  /\ dec.status = "none"
  /\ \E pw \in Passwords, r \in RandomBlocks :
       /\ dec_pw' = pw
       /\ dec' = decrypt_image(parts.encrypted_data, parts.salt, parts.iv, pw, r)
  /\ UNCHANGED <<image_data, password, enc, combine_args, combined_data, parts,
                 kdf_call, analysis, npcr_call, entropy_call, gui>>

\* key, salt = derive_key(password, salt, iterations)
DeriveKey ==
  /\ \E pw \in Passwords, s \in SaltArgs, n \in IterationCounts, r \in RandomBlocks :
       kdf_call' = [status |-> "called", password |-> pw, salt |-> s,
                    iterations |-> n, results |-> <<derive_key(pw, s, n, r)>>]
  /\ UNCHANGED <<image_data, password, enc, combine_args, combined_data, parts,
                 dec_pw, dec, analysis, npcr_call, entropy_call, gui>>

\* the same call once more, with identical arguments
DeriveKeyAgain ==
  /\ kdf_call.status = "called"
  /\ Len(kdf_call.results) < MaxKeyCalls
  /\ \E r \in RandomBlocks :
       kdf_call' = [kdf_call EXCEPT !.results =
                      Append(@, derive_key(kdf_call.password, kdf_call.salt,
                                           kdf_call.iterations, r))]
  /\ UNCHANGED <<image_data, password, enc, combine_args, combined_data, parts,
                 dec_pw, dec, analysis, npcr_call, entropy_call, gui>>

Analyze(original_data, encrypted_data) ==
  /\ analysis' = [status |-> "called", original_data |-> original_data,
                  encrypted_data |-> encrypted_data,
                  result |-> analyze_encryption_strength(original_data, encrypted_data)]
  /\ UNCHANGED <<image_data, password, enc, combine_args, combined_data, parts,
                 dec_pw, dec, kdf_call, npcr_call, entropy_call, gui>>

\* _analyze_encryption: read the original and the encrypted file, skip salt
\* and IV, analyse
AnalyzeEncryption ==
  /\ combined_data.status = "ok"
  /\ analysis.status = "none"
  /\ \E original_data \in OriginalFiles(image_data) :
       LET split == split_encrypted_data(combined_data.bytes)
       IN IF split.status = "ok"
          THEN Analyze(original_data, split.encrypted_data)
          ELSE /\ analysis' = [status |-> "called", original_data |-> original_data,
                               encrypted_data |-> combined_data.bytes, result |-> split]
               /\ UNCHANGED <<image_data, password, enc, combine_args, combined_data,
                              parts, dec_pw, dec, kdf_call, npcr_call, entropy_call, gui>>

\* a direct call of analyze_encryption_strength
AnalyzeBuffers ==
  \E o \in AnalysisBuffers, e \in AnalysisBuffers : Analyze(o, e)

\* the original and the encrypted payload are read
LoadBuffers ==
  /\ \E o \in VerdictOriginals, e \in VerdictCiphertexts :
       analysis' = [status |-> "loaded", original_data |-> o, encrypted_data |-> e,
                    result |-> NotCalled]
  /\ UNCHANGED <<image_data, password, enc, combine_args, combined_data, parts,
                 dec_pw, dec, kdf_call, npcr_call, entropy_call, gui>>

\* results = analyze_encryption_strength(original_data, encrypted_data)
AnalyzeLoaded ==
  /\ analysis.status = "loaded"
  /\ Analyze(analysis.original_data, analysis.encrypted_data)

\* a direct call of calculate_npcr_uaci
CalculateNpcrUaci ==
  /\ \E o \in AnalysisArrays, e \in AnalysisArrays :
       npcr_call' = [status |-> "called", original |-> o, encrypted |-> e,
                     result |-> calculate_npcr_uaci(o, e)]
  /\ UNCHANGED <<image_data, password, enc, combine_args, combined_data, parts,
                 dec_pw, dec, kdf_call, analysis, entropy_call, gui>>

\* a direct call of calculate_entropy
CalculateEntropy ==
  /\ \E data \in EntropyBuffers :
       entropy_call' = [status |-> "called", data |-> data,
                        result |-> calculate_entropy(data)]
  /\ UNCHANGED <<image_data, password, enc, combine_args, combined_data, parts,
                 dec_pw, dec, kdf_call, analysis, npcr_call, gui>>

Frame == <<image_data, password, enc, combine_args, combined_data, parts, dec_pw,
           dec, kdf_call, analysis, npcr_call, entropy_call>>

\* _process_image returns before it did anything: a dialog was cancelled
Cancelled(mode, input_path, pw, save_path) ==
  /\ attempt' = [status |-> "done", mode |-> mode, input_path |-> input_path,
                 password |-> pw, save_path |-> save_path, outcome |-> "cancelled"]
  /\ UNCHANGED <<original_image_path, processed_image_path, compare_visible,
                 visual_image_path, files>>
  /\ UNCHANGED Frame

\* _process_image past its three dialogs
Run(mode, input_path, pw, save_path, rnd) ==
  LET run == IF mode = "encrypt"
             THEN EncryptBranch(input_path, pw, save_path, rnd, files)
             ELSE DecryptBranch(input_path, pw, save_path, rnd, files)
  IN /\ attempt' = [status |-> "done", mode |-> mode, input_path |-> input_path,
                    password |-> pw, save_path |-> save_path, outcome |-> run.outcome]
     /\ files' = run.files
     /\ IF run.outcome = "ok"
        THEN /\ original_image_path' =
                  IF mode = "encrypt" THEN input_path ELSE run.visual_path
             /\ processed_image_path' =
                  IF mode = "encrypt" THEN run.visual_path ELSE save_path
             /\ compare_visible' = TRUE
             /\ visual_image_path' =
                  IF mode = "encrypt" THEN run.visual_path ELSE visual_image_path
        ELSE UNCHANGED <<original_image_path, processed_image_path, compare_visible,
                         visual_image_path>>
     /\ UNCHANGED Frame

\* _process_image(mode)
ProcessImage(mode) ==
  \E input_path \in InputChoices(mode) :
    IF input_path = NoPath THEN Cancelled(mode, input_path, PyNone, NoPath)
    ELSE \E pw \in PasswordEntries :
      IF pw = PyNone \/ pw.chars = <<>> THEN Cancelled(mode, input_path, pw, NoPath)
      ELSE \E save_path \in SaveChoices(mode) :
        IF save_path = NoPath THEN Cancelled(mode, input_path, pw, save_path)
        ELSE IF mode = "encrypt"
        THEN \E rnd \in GuiRandom : Run(mode, input_path, pw, save_path, rnd)
        ELSE Run(mode, input_path, pw, save_path, NoRandom)

\* _encrypt_image: the Encrypt button
EncryptClicked == ProcessImage("encrypt")

\* _decrypt_image: the Decrypt button
DecryptClicked == ProcessImage("decrypt")

\* encrypt_image on the small plaintexts
EncryptSmall == EncryptFrom(SmallPlaintexts)

\* ---------------------------------------------------------- specifications
\* the GUI's data flow: encrypt, combine, store; read, split, decrypt; analyse
Next ==
  \/ EncryptImage
  \/ CombineEncryptedData
  \/ ReadEncryptedFile
  \/ SplitEncryptedData
  \/ DecryptImage
  \/ AnalyzeEncryption

Spec == Init /\ [][Next]_vars

\* the container codec called on arbitrary arguments
NextCodec ==
  \/ CombineParts
  \/ ReadEncryptedFile
  \/ SplitEncryptedData

SpecCodec == Init /\ [][NextCodec]_vars

\* derive_key called directly, next to encryption and decryption
NextKdf ==
  \/ DeriveKey
  \/ DeriveKeyAgain
  \/ EncryptSmall
  \/ CombineEncryptedData
  \/ SplitEncryptedData
  \/ DecryptImage

SpecKdf == Init /\ [][NextKdf]_vars

\* the analysis functions called on arbitrary buffers and arrays
NextAnalysis ==
  \/ AnalyzeBuffers
  \/ CalculateNpcrUaci

SpecAnalysis == Init /\ [][NextAnalysis]_vars

\* calculate_entropy called on arbitrary buffers
NextEntropy == CalculateEntropy

SpecEntropy == Init /\ [][NextEntropy]_vars

\* analyze_encryption_strength called on payloads of realistic entropy
NextVerdict ==
  \/ LoadBuffers
  \/ AnalyzeLoaded

SpecVerdict == Init /\ [][NextVerdict]_vars

\* the main window: any sequence of Encrypt and Decrypt clicks
NextGui ==
  \/ EncryptClicked
  \/ DecryptClicked

SpecGui == Init /\ [][NextGui]_vars

\* ------------------------------------------------------------- properties
FromEncryption == enc.status = "ok" /\ combine_args.status = "ok"

\* C1: a non-empty plaintext that was encrypted under a password, combined,
\* split and decrypted under that same password comes back unchanged,
\* whatever salt and IV os.urandom produced.
RoundTrip ==
  (dec.status # "none" /\ FromEncryption /\ dec_pw = password /\ image_data # <<>>)
    => (dec.status = "ok" /\ dec.data = image_data)

RoundTripWitness ==
  /\ dec.status = "ok"
  /\ FromEncryption
  /\ dec_pw = password
  /\ Len(image_data) = BlockSize + 1
  /\ enc.salt # enc.iv

\* C2: decrypting under a different non-empty password never returns the
\* plaintext: it fails or returns another buffer.
WrongPasswordNeverReturnsPlaintext ==
  (dec.status # "none" /\ FromEncryption /\ ValidPassword(dec_pw) /\ dec_pw # password)
    => (dec.status = "CryptoError" \/ dec.data # image_data)

\* C6: the ciphertext is 16 * (n \div 16 + 1) bytes long for an n-byte
\* plaintext: a multiple of 16, 1 to 16 bytes longer than the plaintext, a
\* whole extra block when n is a multiple of 16; the container is 32 bytes
\* longer than that, so at least 48 bytes.
CiphertextLength ==
  /\ enc.status = "ok" =>
       LET n == Len(image_data)
           m == Len(enc.encrypted_data)
       IN /\ m = BlockSize * ((n \div BlockSize) + 1)
          /\ m % BlockSize = 0
          /\ m - n \in 1..BlockSize
          /\ (n % BlockSize = 0 => m = n + BlockSize)
  /\ FromEncryption =>
       /\ Len(combined_data.bytes) = HeaderLen + Len(enc.encrypted_data)
       /\ Len(combined_data.bytes) >= 48

CiphertextLengthWitness ==
  /\ FromEncryption
  /\ Len(image_data) = BlockSize
  /\ Len(combined_data.bytes) = 64

\* the buffer AES-CBC decryption yields for the arguments of the last
\* decrypt_image call
DecryptedPadded ==
  CbcDecrypt(PBKDF2(Utf8(dec_pw.chars), parts.salt, KeyLen, DefaultIterations),
             parts.iv, parts.encrypted_data)

\* n > 0, n a multiple of 16, the last byte k of d in 1..16, the last k
\* bytes of d all k
ValidPadding(d) ==
  LET n == Len(parts.encrypted_data)
  IN /\ n > 0
     /\ n % BlockSize = 0
     /\ d[n] \in 1..BlockSize
     /\ \A j \in (n - d[n] + 1)..n : d[j] = d[n]

\* C7: decrypt_image returns a plaintext only for a ciphertext whose length
\* is a positive multiple of 16 and whose decrypted buffer ends in valid
\* padding, and then returns that buffer without the padding; for an empty
\* ciphertext, a length that is not a multiple of 16 or invalid padding it
\* fails with the decryption error.
DecryptChecksPadding ==
  dec.status # "none" =>
    LET n == Len(parts.encrypted_data)
        d == IF n % BlockSize = 0 THEN DecryptedPadded ELSE <<>>
    IN IF ValidPadding(d)
       THEN dec.status = "ok" => dec.data = Take(d, n - d[n])
       ELSE dec.status = "CryptoError"

DecryptChecksPaddingWitness ==
  /\ dec.status = "CryptoError"
  /\ ValidPassword(dec_pw)
  /\ Len(parts.encrypted_data) = 2 * BlockSize
  /\ DecryptedPadded[2 * BlockSize] \in 1..BlockSize

\* C3: two derive_key calls with the same non-empty password, the same
\* explicitly passed salt and the same iteration count return the same key.
DerivationDeterministic ==
  (/\ kdf_call.status = "called"
   /\ ValidPassword(kdf_call.password)
   /\ kdf_call.salt.given
   /\ Len(kdf_call.results) >= 2)
    => kdf_call.results[1].key = kdf_call.results[2].key

\* C4: splitting what combine made of a 16-byte salt, a 16-byte IV and any
\* ciphertext, the empty one included, returns exactly those three.
SplitInvertsCombine ==
  (/\ parts.status # "none"
   /\ combine_args.status = "ok"
   /\ Len(combine_args.salt) = SaltLen
   /\ Len(combine_args.iv) = IvLen)
    => /\ parts.status = "ok"
       /\ parts.salt = combine_args.salt
       /\ parts.iv = combine_args.iv
       /\ parts.encrypted_data = combine_args.encrypted_data

SplitInvertsCombineWitness ==
  /\ parts.status = "ok"
  /\ combine_args.status = "ok"
  /\ Len(combine_args.salt) = SaltLen
  /\ Len(combine_args.iv) = IvLen
  /\ combine_args.salt # combine_args.iv
  /\ combine_args.encrypted_data = <<>>

\* C5: split fails with the malformed-container error and returns no parts
\* for a buffer shorter than 32 bytes; for 32 bytes or more it returns
\* bytes [0,16) as salt, [16,32) as IV and [32,end) as ciphertext.
SplitChecksLength ==
  parts.status # "none" =>
    LET b == combined_data.bytes
    IN IF Len(b) < 32
       THEN /\ parts.status = "CryptoError"
            /\ parts.msg = "Invalid encrypted data format"
            /\ DOMAIN parts \cap {"salt", "iv", "encrypted_data"} = {}
       ELSE /\ parts.status = "ok"
            /\ Len(parts.salt) = 16
            /\ Len(parts.iv) = 16
            /\ Len(parts.encrypted_data) = Len(b) - 32
            /\ \A j \in 1..16 : parts.salt[j] = b[j] /\ parts.iv[j] = b[16 + j]
            /\ \A j \in 1..(Len(b) - 32) : parts.encrypted_data[j] = b[32 + j]

SplitChecksLengthWitness ==
  /\ parts.status = "CryptoError"
  /\ combine_args.status = "none"
  /\ Len(combined_data.bytes) = 31

\* C8: with a password that is empty or not a str, derive_key fails with
\* the invalid-password error and returns no key, with or without a salt;
\* encrypt_image and decrypt_image fail too and return no salt, IV,
\* ciphertext or plaintext.
InvalidPasswordFails ==
  /\ (kdf_call.status = "called" /\ ~ValidPassword(kdf_call.password)) =>
       \A c \in 1..Len(kdf_call.results) :
         /\ kdf_call.results[c].status = "CryptoError"
         /\ kdf_call.results[c].msg = "Invalid password provided"
         /\ DOMAIN kdf_call.results[c] \cap {"key", "salt"} = {}
  /\ (enc.status # "none" /\ ~ValidPassword(password)) =>
       /\ enc.status = "CryptoError"
       /\ DOMAIN enc \cap {"salt", "iv", "encrypted_data"} = {}
  /\ (dec.status # "none" /\ ~ValidPassword(dec_pw)) =>
       /\ dec.status = "CryptoError"
       /\ DOMAIN dec \cap {"data"} = {}

InvalidPasswordFailsWitness ==
  /\ kdf_call.status = "called"
  /\ kdf_call.password = Str(<<>>)
  /\ kdf_call.salt.given
  /\ kdf_call.results[1].status = "CryptoError"
  /\ dec.status = "CryptoError"
  /\ dec_pw.type = "bytes"

\* C9: analysing a non-empty original against the ciphertext encrypt_image
\* made of it, read back from the stored container, returns a result with
\* entropy, correlations, npcr, uaci and a verdict.
AnalysisOfCiphertextSucceeds ==
  (/\ analysis.status = "called"
   /\ FromEncryption
   /\ image_data # <<>>
   /\ analysis.original_data = image_data
   /\ analysis.encrypted_data = enc.encrypted_data)
    => /\ analysis.result.status = "ok"
       /\ {"entropy", "correlations", "npcr", "uaci", "verdict"}
            \subseteq DOMAIN analysis.result

\* C10: calculate_npcr_uaci fails with AnalysisError for arrays of different
\* shapes; analyze_encryption_strength fails with AnalysisError for buffers
\* of different lengths and returns no entropy, correlations or verdict.
ShapeMismatchFails ==
  /\ (npcr_call.status = "called" /\ npcr_call.original.shape # npcr_call.encrypted.shape)
       => npcr_call.result.status = "AnalysisError"
  /\ (/\ analysis.status = "called"
      /\ Len(analysis.original_data) # Len(analysis.encrypted_data))
       => /\ analysis.result.status = "AnalysisError"
          /\ DOMAIN analysis.result
               \cap {"entropy", "correlations", "npcr", "uaci", "verdict"} = {}

ShapeMismatchFailsWitness ==
  /\ npcr_call.status = "called"
  /\ npcr_call.original.shape = <<1, 2>>
  /\ npcr_call.encrypted.shape = <<2, 1>>
  /\ npcr_call.result.status = "AnalysisError"
  /\ analysis.status = "called"
  /\ Len(analysis.original_data) = 1
  /\ Len(analysis.encrypted_data) = 2
  /\ analysis.result.status = "AnalysisError"

\* C11: calculate_entropy fails with AnalysisError on an empty buffer; it
\* never returns a numeric entropy for one.
EmptyBufferEntropyFails ==
  (entropy_call.status = "called" /\ entropy_call.data = <<>>)
    => entropy_call.result.status = "AnalysisError"

\* C15: for a non-empty buffer the entropy lies in [0, 8] bits; it is 0 when
\* all bytes are equal and 8 when each of the 256 byte values occurs equally
\* often.
EntropyRange ==
  (entropy_call.status = "called" /\ entropy_call.data # <<>>) =>
    LET data == entropy_call.data
        r == entropy_call.result
    IN /\ r.status = "ok"
       /\ 0 <= r.value
       /\ r.value <= 8 * 1024
       /\ (\A j \in 1..Len(data) : data[j] = data[1]) => r.value = 0
       /\ (\A v \in 0..255 : Count(data, v) = Len(data) \div 256 /\ Len(data) % 256 = 0)
            => r.value = 8 * 1024

EntropyRangeWitness ==
  /\ entropy_call.status = "called"
  /\ Len(entropy_call.data) = 512
  /\ \A v \in 0..255 : Count(entropy_call.data, v) = 2
  /\ entropy_call.result.status = "ok"
  /\ entropy_call.result.value = 8 * 1024

VerdictFollowsTable ==
  /\ (analysis.status = "called" /\ analysis.result.status = "ok") =>
       LET r == analysis.result
           c == r.correlations
           isNumber == ~c.horizontal.nan /\ ~c.vertical.nan /\ ~c.diagonal.nan
           sum3 == AbsCorr1000(c.horizontal) + AbsCorr1000(c.vertical)
                     + AbsCorr1000(c.diagonal)
           e10 == r.entropy * 10
           pe == IF e10 > 79 * 1024 THEN 2
                 ELSE IF e10 > 75 * 1024 /\ e10 <= 79 * 1024 THEN 1 ELSE 0
           pc == IF isNumber /\ sum3 < 300 THEN 2
                 ELSE IF isNumber /\ 300 <= sum3 /\ sum3 < 900 THEN 1 ELSE 0
           pn == IF ~r.npcr.nan /\ r.npcr.num > 99 * r.npcr.den THEN 2
                 ELSE IF /\ ~r.npcr.nan
                         /\ r.npcr.num > 90 * r.npcr.den
                         /\ r.npcr.num <= 99 * r.npcr.den THEN 1 ELSE 0
           points == pe + pc + pn
       IN r.verdict = IF points >= 5 THEN "Strong"
                      ELSE IF points >= 3 THEN "Moderate" ELSE "Weak"
  /\ LET corr(m) == [nan |-> FALSE, cov |-> 10 * m, vx |-> 10000, vy |-> 10000]
         all(m) == [status |-> "ok", horizontal |-> corr(m), vertical |-> corr(m),
                    diagonal |-> corr(m)]
     IN /\ Verdict(StrengthScore(8100, all(50), Ratio(995, 10))) = "Strong"
        /\ Verdict(StrengthScore(7782, all(200), Ratio(95, 1))) = "Moderate"
        /\ Verdict(StrengthScore(7168, all(500), Ratio(50, 1))) = "Weak"

VerdictFollowsTableWitness ==
  /\ analysis.status = "called"
  /\ analysis.result.status = "ok"
  /\ analysis.result.entropy > EntropyMid
  /\ analysis.result.entropy <= EntropyHigh
  /\ analysis.result.npcr.num = 100 * analysis.result.npcr.den
  /\ analysis.result.verdict = "Moderate"

\* C14: every result has an entropy in [0, 8], a horizontal, a vertical and a
\* diagonal correlation that are numbers in [-1, 1], npcr and uaci in
\* [0, 100] and a verdict that is Strong, Moderate or Weak.
AnalysisResultInRange ==
  (analysis.status = "called" /\ analysis.result.status = "ok") =>
    LET r == analysis.result
        InUnit(c) == ~c.nan /\ c.cov * c.cov <= c.vx * c.vy
        Percent(q) == ~q.nan /\ 0 <= q.num /\ q.num <= 100 * q.den
    IN /\ 0 <= r.entropy /\ r.entropy <= 8 * 1024
       /\ r.verdict \in {"Strong", "Moderate", "Weak"}
       /\ Percent(r.npcr)
       /\ Percent(r.uaci)
       /\ InUnit(r.correlations.horizontal)
       /\ InUnit(r.correlations.diagonal)
       /\ InUnit(r.correlations.vertical)

\* C16: in every result the horizontal and the diagonal correlation are nan
\* (the payload is analysed as a single column), the mean absolute
\* correlation passes neither threshold, the score is at most 4 and the
\* verdict is not Strong.
CorrelationNeverScores ==
  (analysis.status = "called" /\ analysis.result.status = "ok") =>
    LET r == analysis.result
    IN /\ r.correlations.horizontal.nan
       /\ r.correlations.diagonal.nan
       /\ ~AvgCorrelationBelow(r.correlations, 100)
       /\ ~AvgCorrelationBelow(r.correlations, 300)
       /\ StrengthScore(r.entropy, r.correlations, r.npcr) <= 4
       /\ r.verdict # "Strong"

CorrelationNeverScoresWitness ==
  /\ analysis.status = "called"
  /\ analysis.result.status = "ok"
  /\ analysis.result.entropy > EntropyHigh
  /\ analysis.result.npcr.num > 99 * analysis.result.npcr.den
  /\ ~analysis.result.correlations.vertical.nan
  /\ analysis.result.verdict = "Moderate"

\* C17: a run of _process_image that is cancelled or fails leaves
\* original_image_path and processed_image_path as they were and does not
\* show the Compare button; the Compare button is visible only when both
\* paths are set; and a decrypt run changes the file at its save path only
\* if the input file splits, decrypts under the entered password and the
\* decrypted data is a valid image.
FailedAttemptKeepsPaths ==
  /\ [](compare_visible =>
          (original_image_path # PyNone /\ original_image_path # NoPath
           /\ processed_image_path # PyNone /\ processed_image_path # NoPath))
  /\ [][(attempt'.status = "done" /\ attempt'.outcome # "ok") =>
          /\ original_image_path' = original_image_path
          /\ processed_image_path' = processed_image_path
          /\ compare_visible' = compare_visible]_vars
  /\ [][(/\ attempt'.status = "done"
          /\ attempt'.mode = "decrypt"
          /\ attempt'.save_path # NoPath
          /\ files'[attempt'.save_path] # files[attempt'.save_path]) =>
          LET container == files[attempt'.input_path]
              sp == split_encrypted_data(container.bytes)
              d == decrypt_image(sp.encrypted_data, sp.salt, sp.iv,
                                 attempt'.password, Fill(SaltLen, 0))
          IN /\ container.exists
             /\ sp.status = "ok"
             /\ d.status = "ok"
             /\ IsImage(d.data)]_vars

FailedAttemptKeepsPathsWitness ==
  /\ attempt.status = "done"
  /\ attempt.mode = "decrypt"
  /\ attempt.outcome = "failed"
  /\ attempt.input_path = Path("memo", ".enc")
  /\ attempt.password = PwA
  /\ ~files[attempt.save_path].exists
  /\ compare_visible
  /\ original_image_path = Path("photo", ".png")
  /\ processed_image_path = Path("photo", "_visual.png")

====
